---- MODULE Spec2Model ----
(***************************************************************************)
(* The post-list application (PostList.jsx, App.jsx, api.js) on top of the *)
(* client-side query cache it uses: Query Cache, Query Executor, Mutation  *)
(* Runner and Subscription Registry.                                       *)
(***************************************************************************)
EXTENDS Integers, Sequences, FiniteSets, TLC

\* ------------------------------------------------------------------ bounds
MaxTime == 3        \* the clock runs 0..MaxTime
MaxRetry == 3       \* the configured retry bound is drawn from 0..MaxRetry
MaxMut == 2         \* mutation invocations per behaviour
CacheTime == 2      \* the longest configured retention window, in ticks
MaxCancelled == 2   \* cancelled fetches whose responses are still outstanding, per key

\* --------------------------------------------------------------- constants
postsKey == <<"posts">>
tagsKey == <<"tags">>
pageKey == <<"posts", "page2">>
postIdKey == <<"posts", "1">>
todosKey == <<"todos">>
Keys == {postsKey, tagsKey, pageKey, postIdKey, todosKey}
PostListKeys == {postsKey, tagsKey}

NoTimer == -1
NoError == "absent"
Absent == [kind |-> "absent", val |-> <<>>]
List(s) == [kind |-> "list", val |-> s]
ErrorBody == [kind |-> "errorBody", val |-> <<>>]
TagsPayload == List(<<"x">>)
Responses == {"ok", "httpError", "networkError"}

VARIABLES
    toggle,     \* App: is PostList rendered
    cache,      \* Query Cache: key -> QueryEntry
    net,        \* Query Executor: key -> in-flight fetch bookkeeping
    gcTimer,    \* Subscription Registry: key -> retention deadline or NoTimer, and
                \* the deadline of the timer that the last attach cancelled
    observed,   \* key -> what the subscribers of the key last rendered
    server,     \* mock backend: the created posts, in creation order
    now,        \* clock
    retry,      \* the configured retry bound of queries
    cacheTime,  \* the configured retention window (cacheTime)
    mounted,    \* the single-query components (other than PostList) rendered
    mut,        \* Mutation Runner: invocation -> its position, context and hook log
    executorArg,\* Query Executor: the argument it calls a query function with
    lastSubmit  \* PostList: how the handler of the last submit event ended

vars == <<toggle, cache, net, gcTimer, observed, server, now, retry, cacheTime,
          mounted, mut, executorArg, lastSubmit>>

\* ---------------------------------------------------------------- requests
\* The values fetchPosts can receive as page: nothing, a page number, or the
\* object the executor hands to a query function it calls directly.
NoArg == [kind |-> "undefined", val |-> 0]
Page(n) == [kind |-> "number", val |-> n]
QueryFunctionContext == [kind |-> "object", val |-> 0]
ExecutorArgs == {NoArg, QueryFunctionContext}

\* JavaScript truthiness of such a value.
Truthy(a) == a.kind = "object" \/ (a.kind = "number" /\ a.val # 0)

NoRequest == [path |-> "none", sort |-> "none", paged |-> FALSE, page |-> NoArg, perPage |-> 0]

\* api.js fetchPosts: /posts?_sort=-id& followed by _page=${page}&_per_page=5
\* when page is truthy.
PerPage == 5
postsUrl(page) ==
    [path |-> "/posts", sort |-> "-id", paged |-> Truthy(page),
     page |-> IF Truthy(page) THEN page ELSE NoArg,
     perPage |-> IF Truthy(page) THEN PerPage ELSE 0]

\* api.js fetchTags, and the README's fetchTodos: a fixed URL.
plainUrl(path) == [NoRequest EXCEPT !.path = path]

\* The request the query function of k sends.  PostList passes fetchPosts itself
\* as queryFn of ["posts"], so page is the executor's argument; the paginated
\* component passes () => fetchPosts(page).
Request(k) ==
    IF k = postsKey THEN postsUrl(executorArg)
    ELSE IF k = pageKey THEN postsUrl(Page(2))
    ELSE IF k = tagsKey THEN plainUrl("/tags")
    ELSE IF k = todosKey THEN plainUrl("/todos")
    ELSE postsUrl(NoArg)

\* ------------------------------------------------------------ query cache
NoEntry ==
    [exists |-> FALSE, status |-> "idle", data |-> Absent, error |-> NoError,
     fetchedAt |-> 0, isInvalidated |-> FALSE, subscriberCount |-> 0]

IdleNet ==
    [inflight |-> 0, cancelled |-> 0, failureCount |-> 0, calls |-> 0, sentAt |-> 0,
     request |-> NoRequest]

View(e) == [status |-> e.status, data |-> e.data, error |-> e.error]

\* set(key, patch) notifies the current subscribers synchronously.
Notify(c, obs) ==
    [k \in Keys |-> IF c[k].subscriberCount > 0 THEN View(c[k]) ELSE obs[k]]

\* An unmounted component renders nothing: what it observed goes with it.
Unobserve(c, obs) ==
    [k \in Keys |-> IF c[k].subscriberCount > 0 THEN obs[k] ELSE View(NoEntry)]

\* Staleness check: stale if now - fetchedAt > staleAfter; staleTime defaults to 0.
StaleTime == 0

\* Mutant: every entry counts as stale.
IsStaleAlways(e, t) == TRUE

IsStale(e, t) == e.isInvalidated \/ e.data.kind = "absent" \/ t - e.fetchedAt > StaleTime

\* ---------------------------------------------------------- query executor
\* Mutant: every run issues a request of its own.
RunNoDedup(c, n, k) ==
    <<[c EXCEPT ![k].status = "loading", ![k].error = NoError],
      [n EXCEPT ![k] = [inflight |-> n[k].inflight + 1, cancelled |-> n[k].cancelled,
                        failureCount |-> 0, calls |-> 1, sentAt |-> Len(server),
                        request |-> Request(k)]]>>

\* Mutant: a fetch starts from a blank entry.
startFetchBlank(e) == [e EXCEPT !.status = "loading", !.error = NoError, !.data = Absent]

\* A fetch starts: the entry is loading; the data it holds stays and is still
\* shown while the refetch happens in the background.
startFetch(e) == [e EXCEPT !.status = "loading", !.error = NoError]

\* run(key, fetchFn): a run for a key that is loading attaches to the fetch in flight.
Run(c, n, k) ==
    IF n[k].inflight > 0
    THEN <<c, n>>
    ELSE <<[c EXCEPT ![k] = startFetch(c[k])],
           [n EXCEPT ![k] = [inflight |-> 1, cancelled |-> n[k].cancelled,
                             failureCount |-> 0, calls |-> 1, sentAt |-> Len(server),
                             request |-> Request(k)]]>>

RECURSIVE RunAll(_, _, _)
RunAll(c, n, ks) ==
    IF ks = {} THEN <<c, n>>
    ELSE LET k == CHOOSE x \in ks : TRUE
             r == Run(c, n, k)
         IN RunAll(r[1], r[2], ks \ {k})

\* ------------------------------------------------------------------ api.js
\* _sort=-id : descending by id.
RECURSIVE Insert(_, _), SortDesc(_)
Insert(p, s) ==
    IF s = <<>> THEN <<p>>
    ELSE IF p.id > Head(s).id THEN <<p>> \o s
    ELSE <<Head(s)>> \o Insert(p, Tail(s))
SortDesc(s) == IF s = <<>> THEN <<>> ELSE Insert(Head(s), SortDesc(Tail(s)))

\* GET /posts?_sort=-id : the posts the backend held when it served the request.
PostsBody(n) == List(SortDesc(SubSeq(server, 1, n)))

fetchPosts(resp, n) ==
    IF resp = "networkError" THEN [ok |-> FALSE, data |-> Absent, error |-> "NetworkError"]
    ELSE IF resp = "httpError" THEN [ok |-> FALSE, data |-> Absent, error |-> "some error"]
    ELSE [ok |-> TRUE, data |-> PostsBody(n), error |-> NoError]

fetchTags(resp) ==
    IF resp = "networkError" THEN [ok |-> FALSE, data |-> Absent, error |-> "NetworkError"]
    ELSE IF resp = "httpError" THEN [ok |-> TRUE, data |-> ErrorBody, error |-> NoError]
    ELSE [ok |-> TRUE, data |-> TagsPayload, error |-> NoError]

\* README todos example: the todos of the backend, in creation order.
fetchTodos(resp, n) ==
    IF resp = "ok" THEN [ok |-> TRUE, data |-> List(SubSeq(server, 1, n)), error |-> NoError]
    ELSE [ok |-> FALSE, data |-> Absent,
          error |-> IF resp = "httpError" THEN "HttpStatusError" ELSE "NetworkError"]

queryFn(k, resp, n) ==
    IF k = tagsKey THEN fetchTags(resp)
    ELSE IF k = todosKey THEN fetchTodos(resp, n)
    ELSE fetchPosts(resp, n)

\* ------------------------------------------------------- subscription registry
\* attach(key): the entry is created on first subscription; a pending retention
\* timer is cancelled.
attach(c, k) ==
    [c EXCEPT ![k] = [(IF c[k].exists THEN c[k] ELSE NoEntry) EXCEPT
                        !.exists = TRUE,
                        !.subscriberCount = c[k].subscriberCount + 1]]

\* Mutant: unmounting does not release the subscription.
detachKeepsCount(c, k) == c

\* Mutant: attaching leaves a pending retention timer running.
attachTimerKeepsTimer(g, k) ==
    [g EXCEPT ![k].cancelled = IF g[k].timer # NoTimer /\ now < g[k].timer
                               THEN g[k].timer ELSE g[k].cancelled]

\* (cancelled remembers the deadline of the pending timer the attach cancelled.)
attachTimer(g, k) ==
    [g EXCEPT ![k] = [timer |-> NoTimer,
                      cancelled |-> IF g[k].timer # NoTimer /\ now < g[k].timer
                                    THEN g[k].timer ELSE g[k].cancelled]]

\* detach(token): reaching zero subscribers starts the retention timer.
detach(c, k) == [c EXCEPT ![k].subscriberCount = c[k].subscriberCount - 1]

detachTimer(g, c, k) ==
    IF c[k].subscriberCount = 0
    THEN [g EXCEPT ![k] = [timer |-> now + cacheTime, cancelled |-> NoTimer]]
    ELSE g

RECURSIVE AttachAll(_, _), DetachAll(_, _), AttachTimers(_, _), DetachTimers(_, _, _)
AttachAll(c, ks) ==
    IF ks = {} THEN c
    ELSE LET k == CHOOSE x \in ks : TRUE IN AttachAll(attach(c, k), ks \ {k})
DetachAll(c, ks) ==
    IF ks = {} THEN c
    ELSE LET k == CHOOSE x \in ks : TRUE IN DetachAll(detach(c, k), ks \ {k})
AttachTimers(g, ks) ==
    IF ks = {} THEN g
    ELSE LET k == CHOOSE x \in ks : TRUE IN AttachTimers(attachTimer(g, k), ks \ {k})
DetachTimers(g, c, ks) ==
    IF ks = {} THEN g
    ELSE LET k == CHOOSE x \in ks : TRUE IN DetachTimers(detachTimer(g, c, k), c, ks \ {k})

\* Mutant: a mounting component fetches only when the cache holds no data.
useQueryFetchesOnlyWhenEmpty(c, n, ks) ==
    LET c1 == AttachAll(c, ks)
    IN RunAll(c1, n, {k \in ks : c1[k].data.kind = "absent"})

\* useQuery on mount: subscribe, then run the query when its entry is stale.
useQuery(c, n, ks) ==
    LET c1 == AttachAll(c, ks)
    IN RunAll(c1, n, {k \in ks : IsStale(c1[k], now)})

\* ------------------------------------------------------------ invalidation
IsPrefix(p, k) == Len(p) <= Len(k) /\ SubSeq(k, 1, Len(p)) = p

\* Mutant: exact is ignored, every key starting with the given key matches.
MatchesPrefixAlways(k, arg, exact) == IsPrefix(arg, k)

\* exact: true matches only the query with the exact key; otherwise every query
\* whose key starts with the given key.
Matches(k, arg, exact) == IF exact THEN k = arg ELSE IsPrefix(arg, k)

\* invalidateQueries: marks the matching entries stale and refetches those that
\* have subscribers.
invalidateQueries(c, n, arg, exact) ==
    LET hit == {k \in Keys : c[k].exists /\ Matches(k, arg, exact)}
        c1 == [k \in Keys |-> IF k \in hit THEN [c[k] EXCEPT !.isInvalidated = TRUE]
                                           ELSE c[k]]
    IN RunAll(c1, n, {k \in hit : c1[k].subscriberCount > 0})

\* Mutant: cancelQueries leaves the fetch in flight running.
cancelQueriesLeavesFetch(c, n, k) == <<c, n>>

\* cancelQueries: the fetch in flight is cancelled; its response will be discarded.
cancelQueries(c, n, k) ==
    IF n[k].inflight = 0 THEN <<c, n>>
    ELSE <<[c EXCEPT ![k].status = IF c[k].data.kind = "absent" THEN "idle" ELSE "success"],
           [n EXCEPT ![k].inflight = 0,
                     ![k].cancelled = n[k].cancelled + n[k].inflight]>>

getQueryData(c, k) == c[k].data

\* setQueryData: writes data into the entry of k, synchronously.
setQueryData(c, k, d) ==
    [c EXCEPT ![k].exists = TRUE, ![k].status = "success", ![k].data = d,
              ![k].error = NoError, ![k].fetchedAt = now, ![k].isInvalidated = FALSE]

\* --------------------------------------------------------- mutation runner
Undefined == [kind |-> "undefined", prev |-> Absent]
NoPost == [id |-> 0, title |-> "", tags |-> <<>>]
NoMutation ==
    [pc |-> "idle", cfg |-> "none", variables |-> NoPost, context |-> Undefined,
     hooks |-> <<>>, ctxArg |-> Undefined, errArg |-> NoError, resp |-> "none",
     storedAt |-> 0, thrown |-> NoError, before |-> Absent, failureCount |-> 0]

\* Mutant: a failure fires onSettled only, a success fires both outcome hooks.
OutcomeHooksNoSingleBranch(ok) ==
    IF ok THEN <<"onSuccess", "onError", "onSettled">> ELSE <<"onSettled">>

\* The hooks the runner fires once mutationFn has settled (or onMutate has thrown).
OutcomeHooks(ok) ==
    IF ok THEN <<"onSuccess", "onSettled">> ELSE <<"onError", "onSettled">>

\* The context handed to onSuccess / onError / onSettled: what onMutate returned.
HookContext(m) == m.context

\* Mutant: mutationFn is started without waiting for onMutate.
StartHooksFnFirst == <<"mutationFn", "onMutate">>

\* The runner calls onMutate, waits for it, and only then calls mutationFn.
StartHooks == <<"onMutate", "mutationFn">>

\* The reason handed to onError.
ErrorArg(reason) == reason

\* Mutant: a throwing onMutate is ignored and the write is sent anyway.
IgnoresOnMutateThrow == FALSE

\* If onMutate throws, the mutation aborts before mutationFn runs.
AbortsWhenOnMutateThrows == TRUE

\* PostList.jsx: onMutate returns the context {title: true}.
onMutate == [kind |-> "title", prev |-> Absent]

\* Mutant: onSuccess invalidates without a filter, that is every query.
onSuccessInvalidatesAll(c, n) == invalidateQueries(c, n, <<>>, FALSE)

\* Mutant: onSuccess only logs (the earlier draft of PostList).
onSuccessLogsOnly(c, n) == <<c, n>>

\* PostList.jsx: onSuccess invalidates exactly ["posts"].
onSuccess(c, n) == invalidateQueries(c, n, postsKey, TRUE)

\* api.js addPost: response.json() whatever the status; rejects on a transport failure.
addPost(resp) == IF resp = "networkError" THEN [ok |-> FALSE, error |-> "NetworkError"]
                 ELSE [ok |-> TRUE, error |-> NoError]

\* README optimistic example: addTodo (axios) rejects on a non-2xx response too.
addTodo(resp) == IF resp = "ok" THEN [ok |-> TRUE, error |-> NoError]
                 ELSE IF resp = "httpError" THEN [ok |-> FALSE, error |-> "HttpStatusError"]
                 ELSE [ok |-> FALSE, error |-> "NetworkError"]

\* Mutant: onError does not roll back.
onErrorNoRollback(c, ctx) == c

\* README optimistic example: onError rolls the cache back to context.previousTodos;
\* with an undefined context reading context.previousTodos throws.
onError(c, ctx) ==
    IF ctx.kind = "snapshot" THEN setQueryData(c, todosKey, ctx.prev) ELSE c

\* README optimistic example: onSettled invalidates ["todos"].
onSettled(c, n) == invalidateQueries(c, n, todosKey, FALSE)

Titles == {"", "B"}
TagSets == {<<>>, <<"x">>}

\* handleSubmit: the names of the entries of new FormData(e.target), and the tags
\* read from them.
FormKeys(checked) == <<"title">> \o checked
FormTags(checked) == SelectSeq(FormKeys(checked), LAMBDA key : key # "title")

\* Mutant: only the title is validated.
InvalidTitleOnly(title, tags) == title = ""

\* handleSubmit: if (!title || !tags.length) return;
Invalid(title, tags) == title = "" \/ Len(tags) = 0
Free(i) == mut[i].pc = "idle" /\ \A j \in 1 .. (i - 1) : mut[j].pc # "idle"

\* The effects of the fired hooks, in the order fired.
RECURSIVE ApplyHooks(_, _, _, _, _)
ApplyHooks(cfg, hs, c, n, ctx) ==
    IF hs = <<>> THEN <<c, n>>
    ELSE LET h == Head(hs)
             r == IF cfg = "addPost" /\ h = "onSuccess" THEN onSuccess(c, n)
                  ELSE IF cfg = "addTodo" /\ h = "onError" THEN <<onError(c, ctx), n>>
                  ELSE IF cfg = "addTodo" /\ h = "onSettled" THEN onSettled(c, n)
                  ELSE <<c, n>>
         IN ApplyHooks(cfg, Tail(hs), r[1], r[2], ctx)

\* ------------------------------------------------------------------ actions
\* App: the Toggle button mounts or unmounts PostList.
setToggle ==
    /\ toggle' = ~toggle
    /\ IF ~toggle
       THEN LET r == useQuery(cache, net, PostListKeys)
            IN /\ cache' = r[1]
               /\ net' = r[2]
               /\ gcTimer' = AttachTimers(gcTimer, PostListKeys)
               /\ observed' = Notify(r[1], observed)
       ELSE LET c1 == DetachAll(cache, PostListKeys)
            IN /\ cache' = c1
               /\ net' = net
               /\ gcTimer' = DetachTimers(gcTimer, c1, PostListKeys)
               /\ observed' = Unobserve(c1, observed)
    /\ UNCHANGED <<server, now, retry, cacheTime, executorArg, lastSubmit, mounted, mut>>

\* A component with a single useQuery on k mounts.
mountQuery(k) ==
    /\ k \notin mounted
    /\ mounted' = mounted \cup {k}
    /\ LET r == useQuery(cache, net, {k})
       IN /\ cache' = r[1]
          /\ net' = r[2]
          /\ gcTimer' = AttachTimers(gcTimer, {k})
          /\ observed' = Notify(r[1], observed)
    /\ UNCHANGED <<toggle, server, now, retry, cacheTime, executorArg, lastSubmit, mut>>

\* A component with a single useQuery on k unmounts.
unmountQuery(k) ==
    /\ k \in mounted
    /\ mounted' = mounted \ {k}
    /\ LET c1 == DetachAll(cache, {k})
       IN /\ cache' = c1
          /\ gcTimer' = DetachTimers(gcTimer, c1, {k})
          /\ observed' = Unobserve(c1, observed)
    /\ UNCHANGED <<toggle, net, server, now, retry, cacheTime, executorArg, lastSubmit, mut>>

\* refetchOnWindowFocus: the stale queries that have subscribers run again.
WindowFocus ==
    /\ LET r == RunAll(cache, net,
                       {k \in Keys : cache[k].subscriberCount > 0 /\ IsStale(cache[k], now)})
       IN /\ cache' = r[1]
          /\ net' = r[2]
          /\ observed' = Notify(r[1], observed)
    /\ UNCHANGED <<toggle, gcTimer, server, now, retry, cacheTime, executorArg, lastSubmit, mounted, mut>>

\* Mutant: the error is surfaced one failure early.
ShouldRetryOneLess(failureCount) == failureCount + 1 < retry

\* Mutant: a single retry whatever the bound.
ShouldRetryOnce(failureCount) == failureCount < 1

\* On rejection the executor retries while failureCount < retry.
ShouldRetry(failureCount) == failureCount < retry

\* Mutant: a failed mutation is retried the way a failed query is.
ShouldRetryMutationLikeQuery(failureCount) == ShouldRetry(failureCount)

\* Mutation failures are never retried: no retry option is given to useMutation.
MutationRetry == 0
ShouldRetryMutation(failureCount) == failureCount < MutationRetry

\* Mutant: the entry goes to status error without recording the cause.
onFetchErrorNoCause(e, err) == [e EXCEPT !.status = "error"]

\* The executor's transitions of an entry when a run ends.
onFetchSuccess(e, d) ==
    [e EXCEPT !.status = "success", !.data = d, !.error = NoError,
              !.fetchedAt = now, !.isInvalidated = FALSE]
onFetchError(e, err) == [e EXCEPT !.status = "error", !.error = err]

\* The fetch in flight for k settles with the response resp.
FetchSettle(k, resp) ==
    /\ net[k].inflight > 0
    /\ \E n \in net[k].sentAt .. Len(server) :
         LET out == queryFn(k, resp, n)
         IN IF out.ok
            THEN /\ cache' = [cache EXCEPT ![k] = onFetchSuccess(cache[k], out.data)]
                 /\ net' = [net EXCEPT ![k].inflight = net[k].inflight - 1,
                                       ![k].failureCount = 0,
                                       ![k].calls = 0]
            ELSE IF ShouldRetry(net[k].failureCount)
            THEN /\ cache' = cache
                 /\ net' = [net EXCEPT ![k].failureCount = net[k].failureCount + 1,
                                       ![k].calls = net[k].calls + 1,
                                       ![k].sentAt = Len(server)]
            ELSE /\ cache' = [cache EXCEPT ![k] = onFetchError(cache[k], out.error)]
                 /\ net' = [net EXCEPT ![k].inflight = net[k].inflight - 1,
                                       ![k].failureCount = net[k].failureCount + 1]
    /\ observed' = Notify(cache', observed)
    /\ UNCHANGED <<toggle, gcTimer, server, now, retry, cacheTime, executorArg, lastSubmit, mounted, mut>>

\* A timer that is due fires before the clock moves on.
Tick ==
    /\ now < MaxTime
    /\ \A k \in Keys : gcTimer[k].timer = NoTimer \/ gcTimer[k].timer > now
    /\ now' = now + 1
    /\ UNCHANGED <<toggle, cache, net, gcTimer, observed, server, retry, cacheTime, executorArg, lastSubmit,
                   mounted, mut>>

\* Mutant: the sweep evicts an entry without looking at its retention timer.
EvictWithoutTimer(k) ==
    /\ cache[k].exists
    /\ net[k].cancelled + net[k].inflight <= MaxCancelled
    /\ cache' = [cache EXCEPT ![k] = NoEntry]
    /\ net' = [net EXCEPT ![k] = [IdleNet EXCEPT
                                    !.cancelled = net[k].cancelled + net[k].inflight]]
    /\ gcTimer' = [gcTimer EXCEPT ![k].timer = NoTimer]
    /\ UNCHANGED <<toggle, observed, server, now, retry, cacheTime, executorArg, lastSubmit, mounted, mut>>

\* The retention timer of k elapses: the entry is evicted.
Evict(k) ==
    /\ gcTimer[k].timer # NoTimer
    /\ now >= gcTimer[k].timer
    /\ net[k].cancelled + net[k].inflight <= MaxCancelled
    /\ cache' = [cache EXCEPT ![k] = NoEntry]
    /\ net' = [net EXCEPT ![k] = [IdleNet EXCEPT
                                    !.cancelled = net[k].cancelled + net[k].inflight]]
    /\ gcTimer' = [gcTimer EXCEPT ![k].timer = NoTimer]
    /\ UNCHANGED <<toggle, observed, server, now, retry, cacheTime, executorArg, lastSubmit, mounted, mut>>

\* The response of a cancelled fetch arrives and is discarded.
DiscardCancelled(k) ==
    /\ net[k].cancelled > 0
    /\ net' = [net EXCEPT ![k].cancelled = net[k].cancelled - 1]
    /\ UNCHANGED <<toggle, cache, gcTimer, observed, server, now, retry, cacheTime, executorArg, lastSubmit,
                   mounted, mut>>

\* Client code calls queryClient.invalidateQueries({queryKey: arg, exact}).
invalidateCall(arg, exact) ==
    /\ LET r == invalidateQueries(cache, net, arg, exact)
       IN /\ cache' = r[1]
          /\ net' = r[2]
          /\ observed' = Notify(r[1], observed)
    /\ UNCHANGED <<toggle, gcTimer, server, now, retry, cacheTime, executorArg, lastSubmit, mounted, mut>>

\* PostList.jsx handleSubmit: the form is submitted with title and tags.
\* The form holds the title field and one entry per checked checkbox, named
\* after its tag; the tags are the entry names other than "title".
\* It ends at the early return, at the TypeError of reading the length of an
\* undefined postsData, or after mutate and the reset of the form.
handleSubmit(i, title, checked) ==
    /\ toggle
    /\ Free(i)
    /\ LET tags == FormTags(checked)
           postsData == observed[postsKey].data
       IN IF Invalid(title, tags)
          THEN lastSubmit' = "returned" /\ UNCHANGED mut
          ELSE IF postsData.kind # "list"
          THEN lastSubmit' = "TypeError" /\ UNCHANGED mut
          ELSE /\ lastSubmit' = "mutated"
               /\ mut' = [mut EXCEPT ![i] =
                            [NoMutation EXCEPT
                               !.pc = "pending", !.cfg = "addPost",
                               !.variables = [id |-> Len(postsData.val) + 1,
                                              title |-> title, tags |-> tags],
                               !.context = onMutate, !.hooks = StartHooks]]
    /\ UNCHANGED <<toggle, cache, net, gcTimer, observed, server, now, retry, cacheTime, executorArg,
                   mounted>>

\* The runner's last step: mutationFn has settled, the outcome hooks fire.
Settle(i, ok, reason) ==
    LET m == mut[i]
        fired == OutcomeHooks(ok)
        r == ApplyHooks(m.cfg, fired, cache, net, HookContext(m))
    IN IF ~ok /\ m.pc = "answered" /\ ShouldRetryMutation(m.failureCount)
       THEN /\ mut' = [mut EXCEPT ![i].pc = "pending",
                                  ![i].failureCount = m.failureCount + 1,
                                  ![i].hooks = m.hooks \o <<"mutationFn">>]
            /\ UNCHANGED <<cache, net, observed>>
       ELSE /\ mut' = [mut EXCEPT ![i].pc = "done",
                                  ![i].thrown = IF m.pc = "cancelling" THEN reason ELSE NoError,
                                  ![i].hooks = m.hooks \o fired,
                                  ![i].ctxArg = HookContext(m),
                                  ![i].errArg = IF ok THEN NoError ELSE ErrorArg(reason)]
            /\ cache' = r[1]
            /\ net' = r[2]
            /\ observed' = Notify(r[1], observed)

\* The backend answers the POST of invocation i; a 2xx answer stores the post.
serve(i, resp) ==
    /\ mut[i].pc = "pending"
    /\ server' = IF resp = "ok" THEN Append(server, mut[i].variables) ELSE server
    /\ mut' = [mut EXCEPT ![i].pc = "answered", ![i].resp = resp,
                          ![i].storedAt = IF resp = "ok" THEN Len(server) + 1 ELSE 0]
    /\ UNCHANGED <<toggle, cache, net, gcTimer, observed, now, retry, cacheTime, executorArg, lastSubmit, mounted>>

\* The answer to POST /posts arrives and addPost settles.
addPostSettle(i) ==
    /\ mut[i].pc = "answered"
    /\ mut[i].cfg = "addPost"
    /\ Settle(i, addPost(mut[i].resp).ok, addPost(mut[i].resp).error)
    /\ UNCHANGED <<toggle, gcTimer, server, now, retry, cacheTime, executorArg, lastSubmit, mounted>>

\* README optimistic example: mutate(newTodo); onMutate starts and awaits cancelQueries.
mutateTodo(i) ==
    /\ todosKey \in mounted
    /\ Free(i)
    /\ net[todosKey].cancelled + net[todosKey].inflight <= MaxCancelled
    /\ LET r == cancelQueries(cache, net, todosKey)
       IN /\ cache' = r[1]
          /\ net' = r[2]
          /\ observed' = Notify(r[1], observed)
    /\ mut' = [mut EXCEPT ![i] =
                 [NoMutation EXCEPT
                    !.pc = "cancelling", !.cfg = "addTodo",
                    !.variables = [id |-> i, title |-> "todo", tags |-> <<>>],
                    !.hooks = <<StartHooks[1]>>,
                    !.before = cache[todosKey].data]]
    /\ UNCHANGED <<toggle, gcTimer, server, now, retry, cacheTime, executorArg, lastSubmit, mounted>>

\* README optimistic example: onMutate resumes: snapshot, optimistic append, return
\* the snapshot as context; then mutationFn is called.  Spreading an undefined
\* list throws.
onMutateResume(i) ==
    /\ mut[i].pc = "cancelling"
    /\ LET previousTodos == getQueryData(cache, todosKey)
       IN IF previousTodos.kind # "list"
          THEN IF AbortsWhenOnMutateThrows
               THEN /\ Settle(i, FALSE, "TypeError")
               ELSE /\ mut' = [mut EXCEPT ![i].pc = "pending",
                                          ![i].hooks = mut[i].hooks \o <<StartHooks[2]>>]
                    /\ UNCHANGED <<cache, net, observed>>
          ELSE /\ cache' = setQueryData(cache, todosKey,
                                        List(Append(previousTodos.val, mut[i].variables)))
               /\ net' = net
               /\ observed' = Notify(cache', observed)
               /\ mut' = [mut EXCEPT ![i].pc = "pending",
                                     ![i].context = [kind |-> "snapshot",
                                                     prev |-> previousTodos],
                                     ![i].hooks = mut[i].hooks \o <<StartHooks[2]>>]
    /\ UNCHANGED <<toggle, gcTimer, server, now, retry, cacheTime, executorArg, lastSubmit, mounted>>

\* README optimistic example: the answer to the POST arrives and addTodo settles.
addTodoSettle(i) ==
    /\ mut[i].pc = "answered"
    /\ mut[i].cfg = "addTodo"
    /\ Settle(i, addTodo(mut[i].resp).ok, addTodo(mut[i].resp).error)
    /\ UNCHANGED <<toggle, gcTimer, server, now, retry, cacheTime, executorArg, lastSubmit, mounted>>

\* --------------------------------------------------------------------- Init
EmptyCache == [k \in Keys |-> NoEntry]
IdleNets == [k \in Keys |-> IdleNet]
DefaultRetry == 3

InitCommon ==
    /\ server = <<>>
    /\ now = 0
    /\ gcTimer = [k \in Keys |-> [timer |-> NoTimer, cancelled |-> NoTimer]]
    /\ mut = [i \in 1 .. MaxMut |-> NoMutation]
    /\ lastSubmit = "none"
    /\ executorArg = QueryFunctionContext

InitMounted(ks) ==
    LET r == useQuery(EmptyCache, IdleNets, ks)
    IN /\ cache = r[1]
       /\ net = r[2]
       /\ observed = Notify(r[1], [k \in Keys |-> View(NoEntry)])

\* App starts with toggle = true: PostList is mounted and both queries run.
Init ==
    /\ InitCommon
    /\ toggle = TRUE
    /\ mounted = {}
    /\ retry = DefaultRetry
    /\ cacheTime = CacheTime
    /\ InitMounted(PostListKeys)

Next ==
    \/ setToggle
    \/ WindowFocus
    \/ \E k \in PostListKeys, resp \in Responses : FetchSettle(k, resp)
    \/ \E i \in 1 .. MaxMut, title \in Titles, tags \in TagSets : handleSubmit(i, title, tags)
    \/ \E i \in 1 .. MaxMut, resp \in Responses : serve(i, resp)
    \/ \E i \in 1 .. MaxMut : addPostSettle(i)

Spec == Init /\ [][Next]_vars

\* The form at work: submissions against the posts query, with the answer to
\* GET /tags still outstanding.
NextSubmit ==
    \/ setToggle
    \/ WindowFocus
    \/ \E resp \in Responses : FetchSettle(postsKey, resp)
    \/ \E i \in 1 .. MaxMut, title \in Titles, tags \in TagSets : handleSubmit(i, title, tags)
    \/ \E i \in 1 .. MaxMut, resp \in Responses : serve(i, resp)
    \/ \E i \in 1 .. MaxMut : addPostSettle(i)

SpecSubmit == Init /\ [][NextSubmit]_vars

\* PostList stays mounted: both queries are answered while posts are submitted.
NextMounted ==
    \/ WindowFocus
    \/ \E k \in PostListKeys, resp \in Responses : FetchSettle(k, resp)
    \/ \E i \in 1 .. MaxMut, title \in Titles, tags \in TagSets : handleSubmit(i, title, tags)
    \/ \E i \in 1 .. MaxMut, resp \in Responses : serve(i, resp)
    \/ \E i \in 1 .. MaxMut : addPostSettle(i)

SpecMounted == Init /\ [][NextMounted]_vars

\* The App with the clock: mounting, unmounting, fetching, retention and eviction.
NextRegistry ==
    \/ setToggle
    \/ \E k \in PostListKeys, resp \in Responses : FetchSettle(k, resp)
    \/ Tick
    \/ \E k \in PostListKeys : Evict(k)
    \/ \E k \in PostListKeys : DiscardCancelled(k)

\* The App with cacheTime either 0 or the longest window.
InitRegistry ==
    /\ InitCommon
    /\ toggle = TRUE
    /\ mounted = {}
    /\ retry = DefaultRetry
    /\ cacheTime \in {0, CacheTime}
    /\ InitMounted(PostListKeys)

SpecRegistry == InitRegistry /\ [][NextRegistry]_vars

\* The App next to a second component that reads ["posts"]: two subscribers of
\* one key.
NextHandles ==
    \/ setToggle
    \/ mountQuery(postsKey)
    \/ unmountQuery(postsKey)
    \/ \E k \in PostListKeys : FetchSettle(k, "ok")
    \/ Tick
    \/ \E k \in PostListKeys : Evict(k)
    \/ \E k \in PostListKeys : DiscardCancelled(k)

SpecHandles == InitRegistry /\ [][NextHandles]_vars

\* A paginated posts component (README) whose query has a configured retry bound.
InitRetry ==
    /\ InitCommon
    /\ toggle = FALSE
    /\ mounted = {pageKey}
    /\ retry \in 0 .. MaxRetry
    /\ cacheTime = CacheTime
    /\ InitMounted({pageKey})

NextRetry ==
    \/ mountQuery(pageKey)
    \/ unmountQuery(pageKey)
    \/ WindowFocus
    \/ \E resp \in Responses : FetchSettle(pageKey, resp)
    \/ Tick

SpecRetry == InitRetry /\ [][NextRetry]_vars

\* The paginated posts component with the clock, retention and client code that
\* invalidates ["posts"].
NextStale ==
    \/ mountQuery(pageKey)
    \/ unmountQuery(pageKey)
    \/ WindowFocus
    \/ \E resp \in Responses : FetchSettle(pageKey, resp)
    \/ Tick
    \/ Evict(pageKey)
    \/ DiscardCancelled(pageKey)
    \/ \E exact \in BOOLEAN : invalidateCall(postsKey, exact)

SpecStale == InitRetry /\ [][NextStale]_vars

\* The README optimistic-update example on ["todos"], with a Todos component.
InitOptimistic ==
    /\ InitCommon
    /\ toggle = FALSE
    /\ mounted = {todosKey}
    /\ retry = DefaultRetry
    /\ cacheTime = CacheTime
    /\ InitMounted({todosKey})

NextOptimistic ==
    \/ \E resp \in Responses : FetchSettle(todosKey, resp)
    \/ DiscardCancelled(todosKey)
    \/ \E i \in 1 .. MaxMut : mutateTodo(i)
    \/ \E i \in 1 .. MaxMut : onMutateResume(i)
    \/ \E i \in 1 .. MaxMut, resp \in Responses : serve(i, resp)
    \/ \E i \in 1 .. MaxMut : addTodoSettle(i)

SpecOptimistic == InitOptimistic /\ [][NextOptimistic]_vars

\* PostList plus components on ["posts", page] and ["posts", "1"]; client code
\* invalidates with either setting of exact.
InitInvalidate ==
    /\ InitCommon
    /\ toggle = TRUE
    /\ mounted = {pageKey, postIdKey}
    /\ retry = DefaultRetry
    /\ cacheTime = CacheTime
    /\ InitMounted(PostListKeys \cup {pageKey, postIdKey})

InvalidateArgs == {postsKey, pageKey, tagsKey}

NextInvalidate ==
    \/ \E k \in {pageKey, postIdKey} : mountQuery(k)
    \/ \E k \in {pageKey, postIdKey} : unmountQuery(k)
    \/ \E k \in Keys : FetchSettle(k, "ok")
    \/ \E arg \in InvalidateArgs, exact \in BOOLEAN : invalidateCall(arg, exact)

SpecInvalidate == InitInvalidate /\ [][NextInvalidate]_vars

\* PostList next to the paginated posts component, for every argument the
\* executor may call a query function with.
InitQueryFn ==
    /\ server = <<>>
    /\ now = 0
    /\ gcTimer = [k \in Keys |-> [timer |-> NoTimer, cancelled |-> NoTimer]]
    /\ mut = [i \in 1 .. MaxMut |-> NoMutation]
    /\ lastSubmit = "none"
    /\ executorArg \in ExecutorArgs
    /\ toggle = TRUE
    /\ mounted = {pageKey}
    /\ retry = DefaultRetry
    /\ cacheTime = CacheTime
    /\ InitMounted(PostListKeys \cup {pageKey})

NextQueryFn ==
    \/ setToggle
    \/ mountQuery(pageKey)
    \/ unmountQuery(pageKey)
    \/ WindowFocus
    \/ \E k \in PostListKeys \cup {pageKey}, resp \in Responses : FetchSettle(k, resp)
    \/ \E exact \in BOOLEAN : invalidateCall(postsKey, exact)

SpecQueryFn == InitQueryFn /\ [][NextQueryFn]_vars

\* ------------------------------------------------------------------ claims
Count(h, s) == Cardinality({j \in 1 .. Len(s) : s[j] = h})
Has(h, s) == Count(h, s) > 0
Muts == 1 .. MaxMut

\* C1: once an invocation has settled, exactly one of onSuccess / onError has
\* fired, onSettled has fired exactly once and is the last hook, directly after
\* the outcome hook; before it has settled none of the three has fired.
C1_OneOutcomeThenSettled ==
    \A i \in Muts :
        LET h == mut[i].hooks
        IN /\ mut[i].pc = "done" =>
                /\ Count("onSuccess", h) + Count("onError", h) = 1
                /\ Count("onSettled", h) = 1
                /\ h[Len(h)] = "onSettled"
                /\ h[Len(h) - 1] \in {"onSuccess", "onError"}
                /\ Has("onSuccess", h) <=> addPost(mut[i].resp).ok
           /\ mut[i].pc # "done" =>
                ~Has("onSuccess", h) /\ ~Has("onError", h) /\ ~Has("onSettled", h)

\* C1 witness: a submission whose POST failed in transit has settled through onError.
C1_Witness ==
    \E i \in Muts : mut[i].pc = "done" /\ mut[i].resp = "networkError"
                     /\ Has("onError", mut[i].hooks)

\* C2: the hooks of an invocation run in the order onMutate, mutationFn, outcome
\* hook, and the outcome hook and onSettled receive the context {title: true}
\* that onMutate returned.
C2_HookOrderAndContext ==
    \A i \in Muts :
        LET h == mut[i].hooks
        IN /\ mut[i].pc \in {"pending", "answered"} => h = <<"onMutate", "mutationFn">>
           /\ mut[i].pc = "done" =>
                /\ Len(h) >= 3
                /\ h[1] = "onMutate"
                /\ h[2] = "mutationFn"
                /\ h[3] \in {"onSuccess", "onError"}
                /\ mut[i].ctxArg = mut[i].context
                /\ mut[i].ctxArg = [kind |-> "title", prev |-> Absent]

\* C2 witness: a submission has settled through onSuccess with the context.
C2_Witness ==
    \E i \in Muts : mut[i].pc = "done" /\ Has("onSuccess", mut[i].hooks)
                     /\ mut[i].ctxArg.kind = "title"

\* C3: when onMutate has thrown, mutationFn was not called, nothing was written
\* to the backend for the invocation, and onError received the thrown reason.
C3_OnMutateThrowAborts ==
    \A i \in Muts :
        (mut[i].pc # "idle" /\ mut[i].cfg = "addTodo" /\ mut[i].context.kind = "undefined"
         /\ mut[i].pc # "cancelling") =>
            /\ mut[i].pc = "done"
            /\ mut[i].thrown = "TypeError"
            /\ ~Has("mutationFn", mut[i].hooks)
            /\ Has("onError", mut[i].hooks)
            /\ mut[i].errArg = mut[i].thrown
            /\ \A j \in 1 .. Len(server) : server[j] # mut[i].variables

\* C3 witness: an optimistic mutation whose onMutate threw has settled.
C3_Witness ==
    \E i \in Muts : mut[i].pc = "done" /\ mut[i].thrown = "TypeError"
                     /\ mut[i].hooks = <<"onMutate", "onError", "onSettled">>

PostsFamily == {postsKey, pageKey, postIdKey}

\* C4: invalidating ["posts"] with exact = true marks the ["posts"] entry and
\* changes the mark of no other entry; with exact = false it marks ["posts"],
\* ["posts", page] and ["posts", "1"] and changes the mark of no other entry.
C4_InvalidateExactAndPrefix ==
    [][ /\ invalidateCall(postsKey, TRUE) =>
             /\ cache[postsKey].exists => cache'[postsKey].isInvalidated
             /\ \A k \in Keys \ {postsKey} :
                    cache'[k].isInvalidated = cache[k].isInvalidated
        /\ invalidateCall(postsKey, FALSE) =>
             /\ \A k \in PostsFamily : cache[k].exists => cache'[k].isInvalidated
             /\ \A k \in Keys \ PostsFamily :
                    cache'[k].isInvalidated = cache[k].isInvalidated
      ]_vars

\* C4 witness: ["posts"] is marked while ["posts", page] and ["posts", "1"], both
\* cached with data, are not: the exact invalidation has acted.
C4_Witness ==
    /\ cache[postsKey].isInvalidated
    /\ \A k \in {pageKey, postIdKey} :
          cache[k].exists /\ cache[k].data.kind = "list" /\ ~cache[k].isInvalidated

\* C5: no key ever has more than one fetch in flight.
C5_OneInflightPerKey == \A k \in Keys : net[k].inflight <= 1

\* C5 witness: every submission made has settled, ["posts"] is marked and its
\* single fetch in flight was sent before the backend stored the last post: the
\* invalidation of that post's onSuccess found the entry loading and attached.
C5_Witness ==
    /\ \A i \in Muts : mut[i].pc \in {"idle", "done"}
    /\ \E i \in Muts : mut[i].pc = "done" /\ mut[i].resp = "ok"
                         /\ Has("onSuccess", mut[i].hooks)
    /\ cache[postsKey].isInvalidated
    /\ net[postsKey].inflight = 1
    /\ net[postsKey].sentAt < Len(server)

\* C6: with a retry bound of at least 3, no entry is in status error or holds an
\* error, and no subscriber has been shown one, unless the fetch function failed
\* more than twice in the run; and a third call that succeeds after two failures
\* ends the run in status success with the payload of that call.
C6_NoErrorSurfaced ==
    retry >= 3 =>
        \A k \in Keys :
            LET shown == cache[k].status = "error" \/ cache[k].error # NoError
                         \/ (cache[k].subscriberCount > 0
                              /\ (observed[k].status = "error" \/ observed[k].error # NoError))
            IN (shown \/ (net[k].inflight = 0 /\ cache[k].status = "loading"))
                   => net[k].failureCount > 2

C6_ThirdCallSucceeds ==
    [][\A k \in Keys :
          (retry >= 3 /\ net[k].failureCount = 2 /\ FetchSettle(k, "ok")) =>
              /\ cache'[k].status = "success"
              /\ cache'[k].error = NoError
              /\ \E n \in 0 .. Len(server) : cache'[k].data = queryFn(k, "ok", n).data
              /\ net'[k].inflight = 0
              /\ net[k].calls = 3
              /\ cache'[k].subscriberCount > 0 => observed'[k] = View(cache'[k])
      ]_vars

C6_FailTwiceThenSucceed == []C6_NoErrorSurfaced /\ C6_ThirdCallSucceeds

\* C6 witness: two calls of a run have failed, the third is in flight, and the
\* subscriber of the key still sees status loading and no error.
C6_Witness ==
    \E k \in Keys :
        /\ retry >= 3 /\ net[k].inflight = 1 /\ net[k].failureCount = 2
        /\ net[k].calls = 3 /\ cache[k].subscriberCount > 0
        /\ observed[k].status = "loading" /\ observed[k].error = NoError

\* C7 as stated: with a retry bound of 3 a run that ends in error has made
\* exactly 3 calls of the fetch function.
C7_ErrorAfterThreeCalls ==
    \A k \in Keys : (retry = 3 /\ cache[k].status = "error") => net[k].calls = 3

\* C7 amended: a run that ends in error has made the first call and one call per
\* retry, retry + 1 calls in all: exactly 4 with a retry bound of 3.
C7_ErrorAfterRetryPlusOneCalls ==
    \A k \in Keys :
        cache[k].status = "error" =>
            /\ net[k].calls = retry + 1
            /\ net[k].failureCount = retry + 1
            /\ net[k].inflight = 0

\* C7 witness: with a retry bound of 3 a run has ended in error after 4 calls.
C7_Witness ==
    \E k \in Keys : retry = 3 /\ cache[k].status = "error" /\ net[k].calls = 4

\* The step in which the rejected optimistic mutation i fires onError.
RolledBack(i) ==
    /\ mut[i].cfg = "addTodo"
    /\ mut[i].pc = "answered"
    /\ mut[i].context.kind = "snapshot"
    /\ mut'[i].pc = "done"
    /\ Has("onError", mut'[i].hooks)

\* C8 as stated: right after onError of a rejected optimistic mutation the cached
\* list equals the value it had immediately before onMutate started.
C8_RestoredToValueBeforeOnMutate ==
    [][\A i \in Muts : RolledBack(i) => cache'[todosKey].data = mut[i].before]_vars

\* C8 amended: right after onError the cached list equals the snapshot onMutate
\* took once its cancelQueries had completed, whatever happened to the entry
\* since.
C8_RestoredToSnapshot ==
    [][\A i \in Muts :
          RolledBack(i) =>
              /\ cache'[todosKey].data = mut[i].context.prev
              /\ cache'[todosKey].subscriberCount > 0 =>
                     observed'[todosKey].data = mut[i].context.prev
      ]_vars

\* C8 witness: a rejected optimistic mutation has rolled back over a cached list
\* that had changed since its optimistic append.
C8_Witness ==
    \E i \in Muts :
        /\ mut[i].cfg = "addTodo" /\ mut[i].pc = "done"
        /\ mut[i].context.kind = "snapshot"
        /\ Has("onError", mut[i].hooks)
        /\ cache[todosKey].data = mut[i].context.prev
        /\ \E j \in Muts \ {i} : mut[j].pc \in {"pending", "answered", "done"}
                                   /\ mut[j].context.kind = "snapshot"
                                   /\ Len(mut[j].context.prev.val) > Len(mut[i].context.prev.val)

\* C9: after a re-attach that came before the retention deadline, the entry stays
\* in the cache with no retention timer pending, and it keeps its data, also once
\* the clock has passed the deadline of the cancelled timer.
C9_KeptAfterReattach ==
    \A k \in Keys :
        gcTimer[k].cancelled # NoTimer =>
            /\ cache[k].exists
            /\ cache[k].subscriberCount > 0
            /\ gcTimer[k].timer = NoTimer

C9_DataKept ==
    [][\A k \in Keys :
          (gcTimer[k].cancelled # NoTimer /\ gcTimer'[k].cancelled # NoTimer
           /\ cache[k].data.kind # "absent") => cache'[k].data.kind # "absent"
      ]_vars

C9_ReattachCancelsEviction == []C9_KeptAfterReattach /\ C9_DataKept

\* C9 witness: the clock has reached the deadline of a timer that a re-attach
\* cancelled, and the entry still holds its data.
C9_Witness ==
    \E k \in Keys :
        /\ gcTimer[k].cancelled # NoTimer
        /\ now >= gcTimer[k].cancelled
        /\ cache[k].exists
        /\ cache[k].data.kind = "list"

\* The step in which submission i fires onSuccess.
Succeeded(i) ==
    /\ mut[i].cfg = "addPost"
    /\ mut[i].pc = "answered"
    /\ mut'[i].pc = "done"
    /\ Has("onSuccess", mut'[i].hooks)

C10_FetchInFlightAfterSuccess ==
    [][\A i \in Muts :
          (Succeeded(i) /\ cache[postsKey].subscriberCount > 0) =>
              /\ cache'[postsKey].isInvalidated
              /\ cache'[postsKey].status = "loading"
              /\ net'[postsKey].inflight = 1
              /\ net[postsKey].inflight = 1 => net'[postsKey] = net[postsKey]
      ]_vars

C10_ResultCachedAndObserved ==
    [][FetchSettle(postsKey, "ok") =>
          /\ cache'[postsKey].status = "success"
          /\ \E n \in net[postsKey].sentAt .. Len(server) :
                cache'[postsKey].data = PostsBody(n)
          /\ ~cache'[postsKey].isInvalidated
          /\ cache'[postsKey].subscriberCount > 0 =>
                observed'[postsKey] = View(cache'[postsKey])
      ]_vars

C11_NonOkResponseRejects ==
    /\ \A k \in Keys : cache[k].data.kind # "errorBody"
    /\ \A i \in Muts : mut[i].resp = "httpError" => ~Has("onSuccess", mut[i].hooks)

\* The mutationFn of invocation i has rejected.
Rejected(i) ==
    /\ mut[i].pc = "done"
    /\ mut[i].thrown = NoError
    /\ IF mut[i].cfg = "addPost" THEN ~addPost(mut[i].resp).ok ELSE ~addTodo(mut[i].resp).ok

C13_StatusInvariant ==
    \A k \in Keys :
        /\ cache[k].status = "success" =>
              cache[k].data.kind # "absent" /\ cache[k].error = NoError
        /\ cache[k].status = "error" => cache[k].error # NoError

\* C13 witness: a refetch has ended in error on an entry that holds the data of
\* an earlier success.
C13_Witness ==
    \E k \in Keys : cache[k].status = "error" /\ cache[k].data.kind = "list"
                     /\ cache[k].error # NoError

HasData(e) == e.exists /\ e.data.kind # "absent"

\* C14: the data an entry holds changes only when a fetch of the key ends in
\* success (or the entry is evicted): starting a refetch, a retry and a failed
\* refetch leave it as it is, and the subscribers of a key always observe what
\* the entry holds.
C14_DataChangesOnlyOnSuccess ==
    [][\A k \in Keys :
          (HasData(cache[k]) /\ cache'[k].exists /\ cache'[k].data # cache[k].data) =>
              /\ net[k].inflight = 1 /\ net'[k].inflight = 0
              /\ cache'[k].status = "success"
      ]_vars

C14_SubscribersSeeEntry ==
    \A k \in Keys : cache[k].subscriberCount > 0 => observed[k] = View(cache[k])

C14_RefetchKeepsData == []C14_SubscribersSeeEntry /\ C14_DataChangesOnlyOnSuccess

\* C14 witness: a refetch of an entry that holds a list has failed at least once
\* and is still in flight, and the subscriber observes the list.
C14_Witness ==
    \E k \in Keys :
        /\ cache[k].status = "loading" /\ cache[k].data.kind = "list"
        /\ net[k].inflight = 1 /\ net[k].failureCount >= 1
        /\ cache[k].subscriberCount > 0 /\ observed[k].data = cache[k].data

\* The step in which a component on k mounts.
Mounting(k) == k \notin mounted /\ k \in mounted'

\* C15: a component that mounts on a stale entry holding data observes that data
\* in the same step, and after the step a fetch of the key is in flight: a new
\* request when none was in flight.
C15_StaleReadServedAndRefetched ==
    [][\A k \in Keys :
          (Mounting(k) /\ HasData(cache[k]) /\ IsStale(cache[k], now)) =>
              /\ observed'[k].data = cache[k].data
              /\ cache'[k].data = cache[k].data
              /\ net'[k].inflight = 1
              /\ net[k].inflight = 0 => net'[k].calls = 1 /\ net'[k].failureCount = 0
      ]_vars

\* C15 witness: after a remount the entry, fetched at an earlier time, is loading
\* with its first request in flight and the component observes the cached list.
C15_Witness ==
    \E k \in Keys :
        /\ k \in mounted /\ gcTimer[k].cancelled # NoTimer
        /\ cache[k].status = "loading" /\ cache[k].data.kind = "list"
        /\ now > cache[k].fetchedAt
        /\ net[k].inflight = 1 /\ net[k].calls = 1
        /\ observed[k].data = cache[k].data

\* C18 as stated: a component mounting on an entry with now - fetchedAt <=
\* staleAfter triggers no fetch.
C18_NoRefetchWithinStaleTime ==
    [][\A k \in Keys :
          (Mounting(k) /\ HasData(cache[k]) /\ now - cache[k].fetchedAt <= StaleTime) =>
              net'[k] = net[k]
      ]_vars

\* C18 amended: a component mounting on an entry that is within staleAfter and
\* has not been invalidated since its last fetch triggers no fetch; mounting on
\* an entry that is stale, by time or by invalidation, leaves a fetch of the key
\* in flight, a new request when none was in flight.
C18_RefetchOnMountIffStale ==
    [][\A k \in Keys :
          (Mounting(k) /\ HasData(cache[k])) =>
              IF now - cache[k].fetchedAt <= StaleTime /\ ~cache[k].isInvalidated
              THEN net'[k] = net[k] /\ cache'[k].status = cache[k].status
              ELSE /\ net'[k].inflight = 1
                   /\ net[k].inflight = 0 => net'[k].calls = 1
      ]_vars

\* C18 witness: a component has remounted on an entry fetched at the current
\* time and no fetch is in flight.
C18_Witness ==
    \E k \in Keys :
        /\ k \in mounted /\ gcTimer[k].cancelled # NoTimer
        /\ cache[k].status = "success" /\ cache[k].fetchedAt = now /\ now > 0
        /\ ~cache[k].isInvalidated
        /\ net[k].inflight = 0

\* C16: cancelQueries leaves no fetch of the key in flight and the entry's data
\* as it is, and the response of a cancelled fetch, when it arrives, changes
\* neither the entry nor what its subscribers observe.
C16_CancelStopsFetch ==
    [][\A i \in Muts :
          (mut[i].pc = "idle" /\ mut'[i].pc = "cancelling") =>
              /\ net'[todosKey].inflight = 0
              /\ net'[todosKey].cancelled = net[todosKey].cancelled + net[todosKey].inflight
              /\ cache'[todosKey].data = cache[todosKey].data
              /\ cache'[todosKey].error = cache[todosKey].error
      ]_vars

C16_DiscardLeavesEntry ==
    [][\A k \in Keys :
          net'[k].cancelled < net[k].cancelled =>
              cache'[k] = cache[k] /\ observed'[k] = observed[k]
      ]_vars

C17_TimerOnlyWithoutSubscribers ==
    /\ \A k \in Keys : gcTimer[k].timer # NoTimer => cache[k].subscriberCount = 0
    /\ toggle => \A k \in PostListKeys : cache[k].exists /\ cache[k].subscriberCount > 0

C17_EvictedOnlyWhenDue ==
    [][\A k \in Keys :
          /\ (cache[k].exists /\ ~cache'[k].exists) =>
                /\ cache[k].subscriberCount = 0
                /\ gcTimer[k].timer # NoTimer
                /\ now >= gcTimer[k].timer
          /\ (gcTimer[k].timer = NoTimer /\ gcTimer'[k].timer # NoTimer) =>
                /\ cache[k].subscriberCount = 1 /\ cache'[k].subscriberCount = 0
                /\ gcTimer'[k].timer = now + cacheTime
          /\ (HasData(cache[k]) /\ cache[k].subscriberCount > 0
               /\ cache'[k].subscriberCount > 0) => HasData(cache'[k])
      ]_vars

C17_EvictionNeedsIdleWindow == []C17_TimerOnlyWithoutSubscribers /\ C17_EvictedOnlyWhenDue

\* C17 witness: with cacheTime 0 time has passed, the second reader of ["posts"]
\* has come and gone, and the mounted PostList still has its cached list.
C17_Witness ==
    /\ cacheTime = 0 /\ now > 0 /\ toggle
    /\ postsKey \notin mounted
    /\ cache[postsKey].subscriberCount = 1
    /\ cache[postsKey].data.kind = "list"
    /\ now > cache[postsKey].fetchedAt
    /\ ~cache[tagsKey].isInvalidated

\* The components that hold a subscription to k.
Handles(k) ==
    (IF toggle /\ k \in PostListKeys THEN 1 ELSE 0) + (IF k \in mounted THEN 1 ELSE 0)

FetchEnded(k) ==
    /\ net[k].inflight = 1
    /\ net'[k].inflight = 0 \/ net'[k].failureCount > net[k].failureCount

\* The step in which a submission settles and its outcome hooks fire.
MutSettled == \E i \in Muts : mut[i].pc = "answered" /\ mut'[i].pc = "done"

SameEntry(j) ==
    cache'[j] = cache[j] /\ net'[j] = net[j] /\ observed'[j] = observed[j]

\* C20: the step in which a fetch of a key ends changes the entry, the fetch
\* bookkeeping and the observed view of no other key; the step in which a
\* submission settles, and onSuccess invalidates ["posts"], changes those of no
\* key but ["posts"].
C20_OnlyOwnEntryChanges ==
    [][/\ \A k \in Keys : FetchEnded(k) => \A j \in Keys \ {k} : SameEntry(j)
       /\ MutSettled => \A j \in Keys \ {postsKey} : SameEntry(j)
      ]_vars

\* C20 witness: a stored submission has settled and ["posts"] has been refetched
\* while ["tags"] holds its fetched tags, unmarked.
C20_Witness ==
    /\ \E i \in Muts : mut[i].pc = "done" /\ mut[i].resp = "ok"
                         /\ Has("onSuccess", mut[i].hooks)
    /\ cache[postsKey].status = "success"
    /\ Len(server) > 0
    /\ cache[postsKey].data = PostsBody(Len(server))
    /\ cache[tagsKey].status = "success"
    /\ cache[tagsKey].data = TagsPayload
    /\ ~cache[tagsKey].isInvalidated

\* The step in which handleSubmit calls mutate for invocation i.
Mutated(i) == mut[i].pc = "idle" /\ mut'[i].pc = "pending" /\ mut'[i].cfg = "addPost"

\* C21: the post that handleSubmit hands to mutate carries an id different from
\* the id of every post the backend has created so far, also when the list the
\* component shows does not yet contain the post of an earlier submission.
C21_SubmittedIdIsNew ==
    [][\A i \in Muts :
          Mutated(i) => \A j \in 1 .. Len(server) : server[j].id # mut'[i].variables.id
      ]_vars

\* C22: a submission with an empty title or without a selected tag ends at the
\* early return and leaves the mutation runner, the backend and the cache as
\* they are; every invocation handleSubmit has started carries a non-empty title
\* and at least one tag.
C22_OnlyValidSubmissionsMutate ==
    \A i \in Muts :
        mut[i].cfg = "addPost" =>
            mut[i].variables.title # "" /\ Len(mut[i].variables.tags) > 0

C22_InvalidSubmissionChangesNothing ==
    [][\A i \in Muts, title \in Titles, checked \in TagSets :
          (handleSubmit(i, title, checked) /\ (title = "" \/ checked = <<>>)) =>
              /\ lastSubmit' = "returned"
              /\ mut' = mut /\ server' = server
              /\ cache' = cache /\ net' = net /\ observed' = observed
      ]_vars

C22_MutateOnlyWhenValid ==
    []C22_OnlyValidSubmissionsMutate /\ C22_InvalidSubmissionChangesNothing

\* C22 witness: with the post list loaded, a submission has ended at the early
\* return: no invocation exists, no post was created, no fetch is in flight.
C22_Witness ==
    /\ lastSubmit = "returned"
    /\ observed[postsKey].data.kind = "list"
    /\ \A i \in Muts : mut[i] = NoMutation
    /\ server = <<>>
    /\ net[postsKey].inflight = 0

\* C23: a submission with a non-empty title and a selected tag calls mutate, for
\* one invocation, whatever the posts query holds.
C23_ValidSubmissionMutates ==
    [][\A i \in Muts, title \in Titles, checked \in TagSets :
          (handleSubmit(i, title, checked) /\ title # "" /\ checked # <<>>) =>
              /\ Mutated(i)
              /\ lastSubmit' = "mutated"
              /\ \A j \in Muts \ {i} : mut'[j] = mut[j]
      ]_vars

\* C24: the request of the ["posts"] query is the request for the unpaginated
\* list, whatever the executor passes to fetchPosts; a request carries _page and
\* _per_page only for the key whose call site supplies the page number, and then
\* with that number.
C24_PagedOnlyWhenPageSupplied ==
    /\ net[postsKey].request # NoRequest => net[postsKey].request = postsUrl(NoArg)
    /\ \A k \in Keys :
          net[k].request.paged =>
              /\ k = pageKey
              /\ net[k].request.page = Page(2)
              /\ net[k].request.perPage = PerPage
====
